---------------------------- MODULE Spec2Model ----------------------------
(***************************************************************************)
(* Model of the Fin-Pulse ingestion core (src/app/core/etl/ingest.py):     *)
(* source readers, canonicalizer, fingerprint generator, batch loader and  *)
(* the three orchestrators, together with the part of the SQLAlchemy       *)
(* session / relational storage behaviour the loader relies on             *)
(* (src/app/core/models.py, Transaction), and with the request of the      *)
(* accounts endpoint that removes stored transactions                      *)
(* (src/app/api/endpoints/accounts.py, delete_account).                    *)
(*                                                                         *)
(* A call is suspended at every await.  The steps of the model are the     *)
(* storage statements the awaits send (SELECT, INSERT, DELETE, COMMIT,     *)
(* rollback) and the arrival of the HTTP response; what a coroutine does   *)
(* between two of them is part of the step.                                *)
(*                                                                         *)
(* Python values are tagged records.  Text is a sequence of one-character  *)
(* strings, so that str() coercion, the pipe-joined fingerprint key and    *)
(* numeric parsing are computed, not assumed.  Dictionary keys are TLA+    *)
(* strings; the Cyrillic keys of the source are written ru_<translit>.     *)
(***************************************************************************)
EXTENDS Integers, Sequences, FiniteSets, TLC

(***************************************************************************)
(* Python values                                                           *)
(***************************************************************************)
PyNone == [t |-> "none"]
PyStr(s) == [t |-> "str", v |-> s]
PyInt(n) == [t |-> "int", v |-> n]
PyList(s) == [t |-> "list", v |-> s]
PyDict(f) == [t |-> "dict", v |-> f]

\* bool(v): None, 0, "", [] and {} are falsy
Truthy(v) ==
    CASE v.t = "none" -> FALSE
      [] v.t = "int" -> v.v # 0
      [] v.t = "str" -> v.v # <<>>
      [] v.t = "list" -> v.v # <<>>
      [] v.t = "dict" -> DOMAIN v.v # {}

\* a or b or c ...: the first truthy operand, else the last operand
RECURSIVE OrChain(_)
OrChain(vals) ==
    IF Len(vals) = 1 THEN vals[1]
    ELSE IF Truthy(vals[1]) THEN vals[1]
    ELSE OrChain(Tail(vals))

\* d.get(k): the value under k, None when k is not a key of d
Get(d, k) == IF k \in DOMAIN d THEN d[k] ELSE PyNone

Digit(n) == <<"0", "1", "2", "3", "4", "5", "6", "7", "8", "9">>[n + 1]

RECURSIVE NatText(_)
NatText(n) == IF n < 10 THEN <<Digit(n)>> ELSE NatText(n \div 10) \o <<Digit(n % 10)>>

IntText(n) == IF n < 0 THEN <<"-">> \o NatText(0 - n) ELSE NatText(n)

\* str(v) for the scalar values that reach a format string or str()
StrText(v) ==
    CASE v.t = "none" -> <<"N", "o", "n", "e">>
      [] v.t = "int" -> IntText(v.v)
      [] v.t = "str" -> v.v

(***************************************************************************)
(* Source readers                                                          *)
(***************************************************************************)
\* csv.DictReader stores the surplus cells of a long row under the key None
RestKey == "<None>"

Max(S) == CHOOSE m \in S : \A o \in S : o <= m

\* One csv.DictReader row: dict(zip(fieldnames, row)), surplus cells as a
\* list under restkey, missing cells as restval (None)
DictRow(fieldnames, row) ==
    LET lf == Len(fieldnames)
        lr == Len(row)
        keys == {fieldnames[i] : i \in 1..lf}
        last(k) == Max({i \in 1..lf : fieldnames[i] = k})
        named == [k \in keys |-> IF last(k) > lr THEN PyNone ELSE PyStr(row[last(k)])]
    IN  IF lr > lf
        THEN [k \in keys \cup {RestKey} |->
                IF k = RestKey
                THEN PyList([i \in 1..(lr - lf) |-> PyStr(row[lf + i])])
                ELSE named[k]]
        ELSE named

\* any(row.values())
AnyValue(d) == \E k \in DOMAIN d : Truthy(d[k])

RECURSIVE SelectRows(_, _)
SelectRows(fieldnames, lines) ==
    IF lines = <<>> THEN <<>>
    ELSE LET row == Head(lines)
             rest == SelectRows(fieldnames, Tail(lines))
         IN  IF row = <<>> THEN rest
             ELSE IF AnyValue(DictRow(fieldnames, row))
                  THEN <<DictRow(fieldnames, row)>> \o rest
                  ELSE rest

\* The bytes decode as utf-8, else as windows-1251, else the decode raises.
\* file.encoding names the first decoder that accepts the bytes; file.table
\* is the parsed text: the header line followed by the data lines, a line
\* being its sequence of cells.
read_csv_file(file) ==
    IF file.encoding \notin {"utf-8", "windows-1251"}
    THEN [ok |-> FALSE, error |-> "UnicodeDecodeError"]
    ELSE IF file.table = <<>>
    THEN [ok |-> TRUE, rows |-> <<>>]
    ELSE [ok |-> TRUE, rows |-> SelectRows(Head(file.table), Tail(file.table))]

\* data is a Python value decoded from JSON
normalize_api_response(data) ==
    IF data.t = "list" THEN [ok |-> TRUE, rows |-> data]
    ELSE IF data.t = "dict"
    THEN LET d == data.v
             a == Get(d, "data")
             b == Get(d, "transactions")
             r == IF "result" \in DOMAIN d THEN d["result"] ELSE PyDict(<<>>)
         IN  IF Truthy(a) THEN [ok |-> TRUE, rows |-> a]
             ELSE IF Truthy(b) THEN [ok |-> TRUE, rows |-> b]
             ELSE IF r.t # "dict" THEN [ok |-> FALSE, error |-> "AttributeError"]
             ELSE IF Truthy(Get(r.v, "transactions"))
                  THEN [ok |-> TRUE, rows |-> Get(r.v, "transactions")]
                  ELSE [ok |-> TRUE, rows |-> PyList(<<>>)]
    ELSE [ok |-> FALSE, error |-> "ValueError"]

\* Variant: the status of the response is not looked at
fetch_from_api_any_status(response) == normalize_api_response(response.body)

\* response = [status, body]: raise_for_status, then normalize the JSON body
fetch_from_api(response) ==
    IF response.status \notin 200..299
    THEN [ok |-> FALSE, error |-> "HTTPStatusError"]
    ELSE normalize_api_response(response.body)

Pad2(n) == <<Digit(n \div 10), Digit(n % 10)>>

Pad3(n) == <<Digit(n \div 100), Digit((n \div 10) % 10), Digit(n % 10)>>

\* datetime.fromtimestamp(ts_ms / 1000).isoformat() with the local zone at
\* UTC, for instants inside the first day of the epoch
IsoFormat(ts_ms) ==
    LET secs == ts_ms \div 1000
        ms == ts_ms % 1000
        base == <<"1", "9", "7", "0", "-", "0", "1", "-", "0", "1", "T">>
                  \o Pad2(secs \div 3600) \o <<":">> \o Pad2((secs \div 60) % 60)
                  \o <<":">> \o Pad2(secs % 60)
    IN  IF ms = 0 THEN base ELSE base \o <<".">> \o Pad3(ms) \o <<"0", "0", "0">>

UzumMerchant == <<"U", "z", "u", "m", " ", "B", "a", "n", "k">>

UzumPrefix == <<"U", "z", "u", "m", " ", "w", "e", "b", "h", "o", "o", "k", ":", " ">>

SrcCsv == <<"c", "s", "v">>

SrcApi == <<"a", "p", "i">>

SrcUzum == <<"u", "z", "u", "m", "_", "w", "e", "b", "h", "o", "o", "k">>

\* The ranges of the integers of milliseconds that lie beyond the last
\* instant a datetime can hold, told by what datetime.fromtimestamp(ts_ms /
\* 1000) does with them where time_t has 64 bits:
\*   "year"    from 253402300800000 (year 10000) to about 9 * 10^19: the
\*             year is out of range, ValueError
\*   "errno"   from about 10^20 to about 9 * 10^21: the seconds fit time_t,
\*             the conversion to local time fails, OSError
\*   "time_t"  from about 10^22 to about 10^311: the seconds do not fit
\*             time_t, OverflowError
\*   "float"   from about 10^312: the quotient ts_ms / 1000 does not fit a
\*             float, OverflowError
HugeRanges == {"year", "errno", "time_t", "float"}

\* An integer of milliseconds in one of these ranges.  Such a number exceeds
\* the integers the model computes with, so it is told by the mark of its
\* range; of its value only its being non-zero is used.
PyHugeInt(range) == [t |-> "int", v |-> 1, huge |-> range]

Huge(v) == "huge" \in DOMAIN v

\* The exception of ts_ms / 1000 or of datetime.fromtimestamp for an integer
\* of the range
HugeError(range) ==
    CASE range = "year" -> "ValueError"
      [] range = "errno" -> "OSError"
      [] range = "time_t" -> "OverflowError"
      [] range = "float" -> "OverflowError"

\* datetime.fromtimestamp(ts_ms / 1000).isoformat(): the division raises
\* TypeError for a value that is not a number; for an integer beyond year
\* 9999 the division or the conversion raises what HugeError tells
FromTimestamp(ts_ms) ==
    IF ts_ms.t # "int" THEN [ok |-> FALSE, error |-> "TypeError"]
    ELSE IF Huge(ts_ms) THEN [ok |-> FALSE, error |-> HugeError(ts_ms.huge)]
    ELSE [ok |-> TRUE, date |-> PyStr(IsoFormat(ts_ms.v))]

\* payload is the content of the webhook dict, event_type a text.  The
\* result is the dict returned, or the exception of the date conversion.
uzum_webhook_to_standard(payload, event_type) ==
    LET ts_ms == OrChain(<<Get(payload, "timestamp"), Get(payload, "transTime"),
                           Get(payload, "confirmTime")>>)
        date == IF Truthy(ts_ms) THEN FromTimestamp(ts_ms)
                ELSE [ok |-> TRUE, date |-> PyNone]
    IN  IF ~date.ok THEN date
        ELSE [ok |-> TRUE,
              row |-> [date |-> date.date,
                       amount |-> Get(payload, "amount"),
                       merchant |-> PyStr(UzumMerchant),
                       category |-> PyNone,
                       description |-> PyStr(UzumPrefix \o event_type),
                       external_id |-> Get(payload, "transId"),
                       raw_payload |-> PyDict(payload),
                       source |-> PyStr(SrcUzum)]]

(***************************************************************************)
(* Canonicalizer and fingerprint                                           *)
(***************************************************************************)
DateKeys == <<"date", "Date", "created_at", "timestamp", "ru_Data">>

AmountKeys == <<"amount", "Amount", "ru_Summa", "value">>

MerchantKeys == <<"merchant", "Merchant", "recipient", "payee", "ru_Poluchatel">>

CategoryKeys == <<"category", "Category", "ru_Kategoriya">>

DescriptionKeys == <<"description", "Description", "note", "ru_Opisanie">>

ExternalIdKeys == <<"id", "transaction_id", "payment_id">>

\* raw_row.get(k1) or raw_row.get(k2) or ...
Resolve(raw_row, keys) == OrChain([i \in 1..Len(keys) |-> Get(raw_row, keys[i])])

\* hashlib.sha256(key).hexdigest(), taken to be collision-free: the digest
\* is represented by the text it was computed from
Sha256(key) == [digest_of |-> key]

\* Variant: the category takes part in the fingerprint
generate_hash_with_category(tnx) ==
    Sha256(StrText(tnx.date) \o <<"|">> \o StrText(tnx.amount) \o <<"|">>
             \o StrText(tnx.merchant) \o <<"|">> \o StrText(tnx.source)
             \o <<"|">> \o StrText(tnx.category))

generate_hash(tnx) ==
    Sha256(StrText(tnx.date) \o <<"|">> \o StrText(tnx.amount) \o <<"|">>
             \o StrText(tnx.merchant) \o <<"|">> \o StrText(tnx.source))

to_standard_format(raw_row, source) ==
    LET external_id == Resolve(raw_row, ExternalIdKeys)
        standard ==
            [date |-> Resolve(raw_row, DateKeys),
             amount |-> Resolve(raw_row, AmountKeys),
             merchant |-> Resolve(raw_row, MerchantKeys),
             category |-> Resolve(raw_row, CategoryKeys),
             description |-> Resolve(raw_row, DescriptionKeys),
             external_id |-> IF Truthy(external_id)
                             THEN PyStr(StrText(external_id)) ELSE PyNone,
             raw_payload |-> IF "raw_payload" \in DOMAIN raw_row
                             THEN raw_row["raw_payload"] ELSE PyDict(raw_row),
             source |-> PyStr(source)]
    IN  standard @@ [transaction_hash |-> generate_hash(standard)]

(***************************************************************************)
(* Storage: the transactions table and the session of one call             *)
(***************************************************************************)
IsDigit(c) == c \in {"0", "1", "2", "3", "4", "5", "6", "7", "8", "9"}

\* Transaction.amount is Numeric(15, 2): the text bound to it must read as a
\* decimal number with at most 13 digits before the point
NumericText(s) ==
    LET body == IF s # <<>> /\ s[1] \in {"-", "+"} THEN Tail(s) ELSE s
        dots == {i \in 1..Len(body) : body[i] = "."}
        whole == IF dots = {} THEN Len(body) ELSE (CHOOSE i \in dots : TRUE) - 1
    IN  /\ \E i \in 1..Len(body) : IsDigit(body[i])
        /\ \A i \in 1..Len(body) : IsDigit(body[i]) \/ body[i] = "."
        /\ Cardinality(dots) <= 1
        /\ whole <= 13

\* models.Transaction(...) as built by save_to_database; created_at and
\* ingested_at are left to their server default, the time of the insert
NewTransaction(txn, user_id, account_id) ==
    [owner_id |-> user_id,
     account_id |-> account_id,
     amount |-> StrText(txn.amount),
     currency |-> "UZS",
     merchant |-> txn.merchant,
     category |-> txn.category,
     description |-> txn.description,
     external_id |-> txn.external_id,
     raw_payload |-> txn.raw_payload,
     transaction_hash |-> txn.transaction_hash,
     processed |-> FALSE]

Range(seq) == {seq[i] : i \in 1..Len(seq)}

Hashes(rows) == {rows[i].transaction_hash : i \in 1..Len(rows)}


VARIABLES
    storage,    \* the committed rows of the transactions table, in commit order
    accounts,   \* ids of the rows of the accounts table the calls refer to
    deleting,   \* the DELETE /accounts/{account_id} request in progress, if any
    autoflush,  \* the autoflush setting of the sessions handed to the loader
    calls,      \* per slot: the ingestion call in progress, or an idle slot
    done,       \* log of the finished calls, in order of completion
    ncalls,     \* number of calls started so far; also the storage clock
    fn          \* argument and result of a pure function under study

vars == <<storage, accounts, deleting, autoflush, calls, done, ncalls, fn>>

Slots == {1, 2}

MaxCalls == 2

\* Number of calls that a failure of storage may hit
MaxFaults == 1

Other(p) == CHOOSE q \in Slots : q # p

\* Variant: the column carries no unique index
NoUniqueIndex(row, hashes) == FALSE

\* Transaction.transaction_hash is unique=True: an insert is refused when a
\* row visible to the inserting transaction already carries the hash
UniqueViolation(row, hashes) == row.transaction_hash \in hashes

\* Transaction.amount rejects a text that is not a number
TypeViolation(row) == ~NumericText(row.amount)

\* Transaction.account_id is a foreign key to accounts.id (nullable)
ForeignKeyViolation(row, existing) ==
    row.account_id # PyNone /\ row.account_id.v \notin existing

Active(c) == c.pc # "idle"

\* No request to delete an account is in progress
IdleDelete == [pc |-> "idle"]

\* The hashes of the stored transactions of the account
RowsOf(account_id) ==
    Hashes(SelectSeq(storage, LAMBDA row : row.account_id = PyInt(account_id)))

\* The call has inserted, and not yet committed, rows that refer to the account
RefersTo(c, account_id) ==
    /\ Active(c)
    /\ \E i \in 1..Len(c.flushed) : c.flushed[i].account_id = PyInt(account_id)

\* The hashes of the stored rows that the delete request has deleted and
\* not yet committed
DeletedRows == IF deleting.pc = "commit" THEN deleting.rows ELSE {}

\* The delete request has deleted, and not yet committed, the account of
\* the row
AccountDeleted(row) ==
    /\ deleting.pc = "commit"
    /\ deleting.account
    /\ row.account_id = PyInt(deleting.account_id)

\* INSERT of one row.  seen: hashes committed or inserted earlier by this
\* transaction; locked: hashes inserted by another transaction that has not
\* ended yet.  The insert waits for the transaction that has inserted its
\* hash, that is deleting the row with its hash, or that is deleting the
\* account it refers to, to end.
InsertRow(row, seen, locked, now) ==
    IF TypeViolation(row) THEN [status |-> "fail", error |-> "DataError"]
    ELSE IF row.transaction_hash \in DeletedRows
    THEN [status |-> "wait", on |-> "delete"]
    ELSE IF UniqueViolation(row, seen)
    THEN [status |-> "fail", error |-> "IntegrityError"]
    ELSE IF row.transaction_hash \in locked THEN [status |-> "wait", on |-> "call"]
    ELSE IF AccountDeleted(row) THEN [status |-> "wait", on |-> "delete"]
    ELSE IF ForeignKeyViolation(row, accounts)
    THEN [status |-> "fail", error |-> "IntegrityError"]
    ELSE [status |-> "ok",
          row |-> row @@ [created_at |-> now, ingested_at |-> now]]

\* The INSERT of the first pending row of the call c while the other slot
\* holds call o: a flush sends the pending rows one INSERT after the other
Flush(c, o) ==
    InsertRow(Head(c.pending), Hashes(storage) \cup Hashes(c.flushed),
              IF Active(o) THEN Hashes(o.flushed) ELSE {}, ncalls)

\* The statement the call issues next is an INSERT: the autoflush that
\* precedes the SELECT inside the loop, or the flush of commit()
FlushesNext(c) ==
    /\ c.pc \in {"loop", "commit"}
    /\ c.txn = "active"
    /\ c.pending # <<>>
    /\ (c.pc = "commit" \/ autoflush)

Waiting(c, o) == FlushesNext(c) /\ Flush(c, o).status = "wait"

\* The call waits for the other call, or for the delete request
WaitsOnCall(c, o) == Waiting(c, o) /\ Flush(c, o).on = "call"

WaitsOnDelete(c, o) == Waiting(c, o) /\ Flush(c, o).on = "delete"

\* The statement await db.commit() of the delete request sends next: the
\* DELETE of the transactions loaded for the cascade, the DELETE of the
\* account, the COMMIT
DeleteStatement ==
    IF deleting.children \ deleting.rows # {} THEN "rows"
    ELSE IF ~deleting.account THEN "account"
    ELSE "commit"

\* The DELETE of the account waits for the call, which has inserted rows
\* that refer to the account, to end
DeleteWaitsFor(c) ==
    /\ deleting.pc = "commit"
    /\ DeleteStatement = "account"
    /\ RefersTo(c, deleting.account_id)

\* The call c is one of the transactions of a cycle of waiting ones
Deadlocked(c, o) ==
    \/ WaitsOnCall(c, o)
         /\ (WaitsOnCall(o, c) \/ (WaitsOnDelete(o, c) /\ DeleteWaitsFor(c)))
    \/ WaitsOnDelete(c, o)
         /\ (DeleteWaitsFor(c) \/ (DeleteWaitsFor(o) /\ WaitsOnCall(o, c)))

\* Outcome of the INSERT the call issues next.  Transactions waiting for
\* each other are a deadlock, which storage resolves by failing a waiter.
FlushOutcome(c, o) ==
    LET f == Flush(c, o)
    IN  IF c.txn = "aborted"
        THEN [status |-> "fail", error |-> "InFailedSQLTransactionError"]
        ELSE IF f.status = "wait" /\ Deadlocked(c, o)
        THEN [status |-> "fail", error |-> "DeadlockDetected"]
        ELSE f

IdleCall == [pc |-> "idle"]

\* A call at its start, before its reader has delivered
Requested(kind, input, ctx, source, other) ==
    [pc |-> "fetch",
     kind |-> kind, input |-> input,
     user_id |-> ctx.user_id, account_id |-> ctx.account_id, source |-> source,
     total |-> 0, transactions |-> <<>>,
     idx |-> 1, saved |-> 0, duplicates |-> 0, errors |-> <<>>,
     pending |-> <<>>, flushed |-> <<>>, txn |-> "active", staged |-> {},
     error |-> "", lost |-> FALSE,
     before |-> storage, accounts_before |-> accounts,
     solo |-> ~Active(other) /\ deleting.pc = "idle", no |-> ncalls + 1]

\* save_to_database(transactions, ...) is entered
Loaded(c, total, transactions) ==
    [c EXCEPT !.pc = IF transactions = <<>> THEN "commit" ELSE "loop",
              !.total = total, !.transactions = transactions]

\* Another request touches storage while the call c is in progress
Overlapped(c) == IF Active(c) THEN [c EXCEPT !.solo = FALSE] ELSE c

\* Log entry of a call that ended
Finished(c, outcome, error, after) ==
    [kind |-> c.kind, input |-> c.input,
     user_id |-> c.user_id, account_id |-> c.account_id, source |-> c.source,
     loaded |-> TRUE, total |-> c.total, transactions |-> c.transactions,
     outcome |-> outcome, error |-> error, lost |-> c.lost,
     saved |-> c.saved, duplicates |-> c.duplicates, errors |-> c.errors,
     staged |-> c.staged,
     before |-> c.before, at_commit |-> storage, after |-> after,
     accounts_before |-> c.accounts_before, accounts_after |-> accounts,
     solo |-> c.solo, no |-> c.no, ended |-> ncalls]

\* Log entry of a call whose reader raised before the loader was reached
ReaderFailed(c, error, ended) ==
    [kind |-> c.kind, input |-> c.input,
     user_id |-> c.user_id, account_id |-> c.account_id, source |-> c.source,
     loaded |-> FALSE, total |-> 0, transactions |-> <<>>,
     outcome |-> "raised", error |-> error, lost |-> FALSE,
     saved |-> 0, duplicates |-> 0, errors |-> <<>>,
     staged |-> {},
     before |-> c.before, at_commit |-> storage, after |-> storage,
     accounts_before |-> c.accounts_before, accounts_after |-> accounts,
     solo |-> c.solo, no |-> c.no, ended |-> ended]

\* A new call takes the first slot that is idle
FreeSlot(p) ==
    /\ calls[p].pc = "idle"
    /\ \A q \in Slots : q < p => Active(calls[q])

\* An orchestrator whose reader does not await: the file is decoded, or the
\* payload mapped, and canonicalized in one go up to the first storage
\* statement of the loader
Begin(p, kind, input, ctx, source, read) ==
    LET c == Requested(kind, input, ctx, source, calls[Other(p)])
    IN  /\ FreeSlot(p)
        /\ ncalls < MaxCalls
        /\ ncalls' = ncalls + 1
        /\ IF read.ok
           THEN /\ calls' = [q \in Slots |->
                               IF q = p
                               THEN Loaded(c, read.total, read.transactions)
                               ELSE Overlapped(calls[q])]
                /\ done' = done
           ELSE /\ calls' = calls
                /\ done' = Append(done, ReaderFailed(c, read.error, ncalls + 1))
        /\ UNCHANGED <<storage, accounts, deleting, autoflush, fn>>

(***************************************************************************)
(* Orchestrators                                                           *)
(***************************************************************************)
ingest_from_csv(p, file_content, ctx, source) ==
    LET read == read_csv_file(file_content)
        out == IF read.ok
               THEN [ok |-> TRUE, total |-> Len(read.rows),
                     transactions |-> [i \in 1..Len(read.rows) |->
                                         to_standard_format(read.rows[i], source)]]
               ELSE read
    IN  Begin(p, "csv", file_content, ctx, source, out)

\* ingest_from_api up to its first await: the request is sent and the call
\* is suspended until the response arrives
ingest_from_api(p, response, ctx, source) ==
    /\ FreeSlot(p)
    /\ ncalls < MaxCalls
    /\ ncalls' = ncalls + 1
    /\ calls' = [q \in Slots |->
                   IF q = p
                   THEN Requested("api", response, ctx, source, calls[Other(p)])
                   ELSE Overlapped(calls[q])]
    /\ UNCHANGED <<storage, accounts, deleting, autoflush, done, fn>>

\* Iterating rows that are not a list of dicts raises inside the
\* comprehension that canonicalizes them
StandardRows(read, source) ==
    IF ~read.ok THEN read
    ELSE IF read.rows.t = "int"
    THEN [ok |-> FALSE, error |-> "TypeError"]
    ELSE IF read.rows.t # "list"
            \/ \E i \in 1..Len(read.rows.v) : read.rows.v[i].t # "dict"
    THEN [ok |-> FALSE, error |-> "AttributeError"]
    ELSE [ok |-> TRUE, total |-> Len(read.rows.v),
          transactions |-> [i \in 1..Len(read.rows.v) |->
                              to_standard_format(read.rows.v[i].v, source)]]

\* ingest_from_api once the response has arrived: fetch_from_api returns or
\* raises, the rows are canonicalized and handed to the loader
ingest_from_api_fetched(p) ==
    LET c == calls[p]
        out == StandardRows(fetch_from_api(c.input), c.source)
    IN  /\ c.pc = "fetch"
        /\ IF out.ok
           THEN /\ calls' = [calls EXCEPT ![p] = Loaded(c, out.total, out.transactions)]
                /\ done' = done
           ELSE /\ calls' = [calls EXCEPT ![p] = IdleCall]
                /\ done' = Append(done, ReaderFailed(c, out.error, ncalls))
        /\ UNCHANGED <<storage, accounts, deleting, autoflush, ncalls, fn>>

\* hook = [payload, event_type].  An exception of the translator leaves the
\* orchestrator before the loader is called.
ingest_from_uzum_webhook(p, hook, ctx) ==
    LET standard == uzum_webhook_to_standard(hook.payload, hook.event_type)
        out == IF standard.ok
               THEN [ok |-> TRUE, total |-> 1,
                     transactions |-> <<to_standard_format(standard.row, SrcUzum)>>]
               ELSE standard
    IN  Begin(p, "webhook", hook, ctx, SrcUzum, out)

(***************************************************************************)
(* Batch loader                                                            *)
(***************************************************************************)
\* The existence check: a row with the hash is visible to the SELECT
Existing(txn, visible) == txn.transaction_hash \in Hashes(visible)

\* Variant: a found fingerprint is tallied as saved
CountDuplicateAsSaved(c) == [c EXCEPT !.saved = c.saved + 1]

\* duplicates += 1; continue
CountDuplicate(c) == [c EXCEPT !.duplicates = c.duplicates + 1]

\* Variant: the row is staged without being tallied
StageRowUncounted(c, txn) ==
    [c EXCEPT !.pending = Append(c.pending, NewTransaction(txn, c.user_id, c.account_id)),
              !.staged = c.staged \cup {txn.transaction_hash}]

\* db.add(transaction); saved += 1.  staged remembers the fingerprints
\* that passed the existence check and were handed to the session
StageRow(c, txn) ==
    [c EXCEPT !.saved = c.saved + 1,
              !.pending = Append(c.pending, NewTransaction(txn, c.user_id, c.account_id)),
              !.staged = c.staged \cup {txn.transaction_hash}]

\* errors.append(f"Row {idx}: {e}")
RecordError(c, e) == [c EXCEPT !.errors = Append(c.errors, [row |-> c.idx, error |-> e])]

\* A flush that fails rolls the transaction of the session back: what it
\* inserted is undone, what was pending is expunged, and the session
\* refuses further statements until rollback() is called
FlushFailed(c) == [c EXCEPT !.pending = <<>>, !.flushed = <<>>, !.txn = "deactive"]

\* An INSERT that succeeds turns the first pending row into an inserted one
Flushed(c, row) == [c EXCEPT !.pending = Tail(c.pending), !.flushed = Append(c.flushed, row)]

\* The session refuses every statement until rollback() is called: a flush
\* of it has failed, or its connection is gone
Refusing(c) == c.txn \in {"deactive", "gone"}

\* Storage has aborted the transaction of the session, without the session
\* having noticed: it refuses every statement until the transaction ends
Aborted(c) == c.txn = "aborted"

\* The exception of a statement the session or storage refuses
Refusal(c) ==
    IF Aborted(c) THEN "InFailedSQLTransactionError" ELSE "PendingRollbackError"

\* for idx, txn in enumerate(transactions, start=1)
Advance(c) ==
    [c EXCEPT !.idx = c.idx + 1,
              !.pc = IF c.idx + 1 > Len(c.transactions) THEN "commit" ELSE "loop"]

\* Variant: the existence check looks only at the rows of the calling owner
LoopBodyPerOwner(c, o) ==
    LET txn == c.transactions[c.idx]
        own(row) == row.owner_id = c.user_id
    IN  IF Refusing(c) \/ Aborted(c)
        THEN Advance(RecordError(c, Refusal(c)))
        ELSE IF FlushesNext(c)
        THEN LET fo == FlushOutcome(c, o)
             IN  IF fo.status = "fail"
                 THEN Advance(RecordError(FlushFailed(c), fo.error))
                 ELSE Flushed(c, fo.row)
        ELSE IF Existing(txn, SelectSeq(storage \o c.flushed, own))
        THEN Advance(CountDuplicate(c))
        ELSE Advance(StageRow(c, txn))

\* One storage statement of an iteration of the loop of save_to_database.
\* await db.execute(select) first sends the INSERT of a pending row when the
\* session autoflushes, then the existence SELECT, followed by either the
\* duplicate count or the staging of a new row; an exception of either
\* statement becomes an errors entry tagged with the 1-based position.
\* Here the statements fail for what the data is; their failing for what
\* happens to storage is save_to_database_step_fails.
LoopBody(c, o) ==
    LET txn == c.transactions[c.idx]
    IN  IF Refusing(c) \/ Aborted(c)
        THEN Advance(RecordError(c, Refusal(c)))
        ELSE IF FlushesNext(c)
        THEN LET fo == FlushOutcome(c, o)
             IN  IF fo.status = "fail"
                 THEN Advance(RecordError(FlushFailed(c), fo.error))
                 ELSE Flushed(c, fo.row)
        ELSE IF Existing(txn, storage \o c.flushed)
        THEN Advance(CountDuplicate(c))
        ELSE Advance(StageRow(c, txn))

save_to_database_step(p) ==
    LET c == calls[p]
        o == calls[Other(p)]
    IN  /\ c.pc = "loop"
        /\ ~Waiting(c, o) \/ Deadlocked(c, o)
        /\ calls' = [calls EXCEPT ![p] = LoopBody(c, o)]
        /\ UNCHANGED <<storage, accounts, deleting, autoflush, done, ncalls, fn>>

\* Number of calls so far that a failure of storage has hit
FaultsSoFar ==
    Cardinality({q \in Slots : Active(calls[q]) /\ calls[q].lost})
      + Cardinality({i \in 1..Len(done) : done[i].lost})

\* What a failure of storage that does not come from the data (a timeout, a
\* dropped connection) leaves behind: the statement alone has failed; storage
\* has aborted the transaction; the connection is gone
Faults == {"statement", "transaction", "connection"}

\* The connection is gone: storage aborts the transaction and the session
\* can send nothing any more
ConnectionLost(c) ==
    [c EXCEPT !.pending = <<>>, !.flushed = <<>>, !.txn = "gone", !.lost = TRUE]

\* await db.execute(select) raises for a failure of storage.  When the
\* statement under way is the INSERT of the autoflush the flush has failed;
\* otherwise the SELECT has, and the session does not roll back.  What storage
\* had inserted for an aborted transaction is undone.
ExecuteFailed(c, fault) ==
    IF fault = "connection" THEN ConnectionLost(c)
    ELSE IF FlushesNext(c) THEN [FlushFailed(c) EXCEPT !.lost = TRUE]
    ELSE IF fault = "transaction"
    THEN [c EXCEPT !.flushed = <<>>, !.txn = "aborted", !.lost = TRUE]
    ELSE [c EXCEPT !.lost = TRUE]

\* An iteration of the loop whose await db.execute(select) raises for a
\* failure of storage: except Exception records it under the position of the
\* record and the loop goes on
save_to_database_step_fails(p) ==
    LET c == calls[p]
    IN  /\ c.pc = "loop"
        /\ c.txn = "active"
        /\ ~c.lost /\ FaultsSoFar < MaxFaults
        /\ \E fault \in Faults :
              calls' = [calls EXCEPT ![p] =
                          Advance(RecordError(ExecuteFailed(c, fault), "OperationalError"))]
        /\ UNCHANGED <<storage, accounts, deleting, autoflush, done, ncalls, fn>>

\* except Exception as e: the commit raised e and await db.rollback() is next
Failing(c, e) == [c EXCEPT !.pc = "rollback", !.error = e]

\* Variant: a failed commit is rolled back but not re-raised
CommitFailureSwallowed(c, o) ==
    IF Refusing(c)
    THEN [ends |-> TRUE, outcome |-> "returned", error |-> "PendingRollbackError",
          table |-> storage]
    ELSE IF c.pending # <<>>
    THEN LET fo == FlushOutcome(c, o)
         IN  IF fo.status = "fail"
             THEN [ends |-> TRUE, outcome |-> "returned", error |-> fo.error,
                   table |-> storage]
             ELSE [ends |-> FALSE, call |-> Flushed(c, fo.row), table |-> storage]
    ELSE [ends |-> TRUE, outcome |-> "returned", error |-> "",
          table |-> storage \o c.flushed]

\* One storage statement of await db.commit(): the INSERT of the next pending
\* row, or, nothing being pending, the COMMIT, after which the call returns
\* its tally.  A statement that fails undoes the transaction and leads to the
\* except branch.  The COMMIT of a transaction that storage has aborted is
\* answered by a rollback and no error: the call returns.
CommitOutcome(c, o) ==
    IF Refusing(c)
    THEN [ends |-> FALSE, call |-> Failing(c, "PendingRollbackError"), table |-> storage]
    ELSE IF c.pending # <<>>
    THEN LET fo == FlushOutcome(c, o)
         IN  IF fo.status = "fail"
             THEN [ends |-> FALSE, call |-> Failing(FlushFailed(c), fo.error),
                   table |-> storage]
             ELSE [ends |-> FALSE, call |-> Flushed(c, fo.row), table |-> storage]
    ELSE [ends |-> TRUE, outcome |-> "returned", error |-> "",
          table |-> storage \o c.flushed]

save_to_database_commit(p) ==
    LET c == calls[p]
        o == calls[Other(p)]
        r == CommitOutcome(c, o)
    IN  /\ c.pc = "commit"
        /\ ~Waiting(c, o) \/ Deadlocked(c, o)
        /\ storage' = r.table
        /\ IF r.ends
           THEN /\ done' = Append(done, Finished(c, r.outcome, r.error, r.table))
                /\ calls' = [calls EXCEPT ![p] = IdleCall]
           ELSE /\ done' = done
                /\ calls' = [calls EXCEPT ![p] = r.call]
        /\ UNCHANGED <<accounts, deleting, autoflush, ncalls, fn>>

\* The storage connection fails while a statement of commit() is under way:
\* commit() raises
CommitLost(c) == Failing(ConnectionLost(c), "OperationalError")

\* Whether storage had applied the COMMIT when the connection failed.  It can
\* have only if the COMMIT was the statement under way, the acknowledgement
\* being what was lost; otherwise storage aborts the transaction.
CommitApplied(c) == IF c.pending = <<>> THEN BOOLEAN ELSE {FALSE}

save_to_database_commit_fails(p) ==
    LET c == calls[p]
    IN  /\ c.pc = "commit"
        /\ c.txn = "active"
        /\ ~c.lost /\ FaultsSoFar < MaxFaults
        /\ \E applied \in CommitApplied(c) :
              storage' = IF applied THEN storage \o c.flushed ELSE storage
        /\ calls' = [calls EXCEPT ![p] = CommitLost(c)]
        /\ UNCHANGED <<accounts, deleting, autoflush, done, ncalls, fn>>

\* What the except branch raises: the error of the commit, unless
\* rollback() itself raises on a connection that is gone
RollbackRaises(c) ==
    IF c.txn = "gone" THEN {c.error, "InterfaceError"} ELSE {c.error}

\* await db.rollback(); print(...); raise
save_to_database_rollback(p) ==
    LET c == calls[p]
    IN  /\ c.pc = "rollback"
        /\ \E e \in RollbackRaises(c) :
              done' = Append(done, Finished(c, "raised", e, storage))
        /\ calls' = [calls EXCEPT ![p] = IdleCall]
        /\ UNCHANGED <<storage, accounts, deleting, autoflush, ncalls, fn>>

(***************************************************************************)
(* Accounts endpoint                                                       *)
(***************************************************************************)
\* Owner of each account
AccountOwner == [a \in {10} |-> 1]

\* The request has been answered with the status, which ends it
Answered(status) == IdleDelete

\* DELETE /accounts/{account_id} up to its first await: the SELECT of the
\* account among those of the user is sent
delete_account(account_id, user_id) ==
    /\ deleting.pc = "idle"
    /\ deleting' = [pc |-> "select", account_id |-> account_id,
                    user_id |-> user_id, children |-> {}, rows |-> {},
                    account |-> FALSE]
    /\ calls' = [q \in Slots |-> Overlapped(calls[q])]
    /\ UNCHANGED <<storage, accounts, autoflush, done, ncalls, fn>>

\* result.scalars().first() of the SELECT
AccountFound ==
    /\ deleting.account_id \in accounts
    /\ AccountOwner[deleting.account_id] = deleting.user_id

\* await db.execute(query) returns: an account that is not found is answered
\* with 404 and nothing changes; otherwise db.delete(acc) is next
delete_account_select ==
    /\ deleting.pc = "select"
    /\ deleting' = IF AccountFound THEN [deleting EXCEPT !.pc = "delete"]
                   ELSE Answered(404)
    /\ calls' = [q \in Slots |-> Overlapped(calls[q])]
    /\ UNCHANGED <<storage, accounts, autoflush, done, ncalls, fn>>

\* await db.delete(acc): the transactions of the account are loaded for the
\* cascade of Account.transactions; nothing is deleted yet
delete_account_cascade ==
    /\ deleting.pc = "delete"
    /\ deleting' = [deleting EXCEPT !.pc = "commit",
                                    !.children = RowsOf(deleting.account_id)]
    /\ calls' = [q \in Slots |-> Overlapped(calls[q])]
    /\ UNCHANGED <<storage, accounts, autoflush, done, ncalls, fn>>

DeleteWaits == \E p \in Slots : DeleteWaitsFor(calls[p])

\* The delete request is one of the transactions of a cycle of waiting ones
DeleteDeadlocked ==
    \E p \in Slots :
        LET c == calls[p]
            o == calls[Other(p)]
        IN  /\ DeleteWaitsFor(c)
            /\ WaitsOnDelete(c, o) \/ (WaitsOnCall(c, o) /\ WaitsOnDelete(o, c))

\* except Exception: storage has undone what the request deleted, and
\* await db.rollback() is next
DeleteFailed == [deleting EXCEPT !.pc = "rollback", !.rows = {}, !.account = FALSE]

\* One storage statement of await db.commit() of the handler.  The DELETE of
\* the account takes with it the transactions committed since the cascade
\* was loaded (ON DELETE CASCADE); after the COMMIT the handler returns.
delete_account_commit ==
    /\ deleting.pc = "commit"
    /\ ~DeleteWaits \/ DeleteDeadlocked
    /\ CASE DeleteStatement = "rows" ->
              /\ deleting' = [deleting EXCEPT !.rows = deleting.children]
              /\ UNCHANGED <<storage, accounts>>
         [] DeleteStatement = "account" ->
              /\ deleting' = IF DeleteWaits THEN DeleteFailed
                             ELSE [deleting EXCEPT !.account = TRUE,
                                                   !.rows = RowsOf(deleting.account_id)]
              /\ UNCHANGED <<storage, accounts>>
         [] DeleteStatement = "commit" ->
              /\ storage' = SelectSeq(storage,
                                LAMBDA row : row.transaction_hash \notin deleting.rows)
              /\ accounts' = accounts \ {deleting.account_id}
              /\ deleting' = Answered(200)
    /\ calls' = [q \in Slots |-> Overlapped(calls[q])]
    /\ UNCHANGED <<autoflush, done, ncalls, fn>>

\* Whether storage had applied the COMMIT of the request when the
\* connection failed: it can have only if the COMMIT was the statement under
\* way
DeleteApplied ==
    IF deleting.pc = "commit" /\ DeleteStatement = "commit" THEN BOOLEAN ELSE {FALSE}

\* The storage connection fails while an await of the handler is under way.
\* db.execute(query) is outside the try block, so its failure is answered
\* without a rollback.
delete_account_fails ==
    /\ deleting.pc \in {"select", "delete", "commit"}
    /\ \E applied \in DeleteApplied :
          IF applied
          THEN /\ storage' = SelectSeq(storage,
                                 LAMBDA row : row.transaction_hash \notin deleting.rows)
               /\ accounts' = accounts \ {deleting.account_id}
          ELSE UNCHANGED <<storage, accounts>>
    /\ deleting' = IF deleting.pc = "select" THEN Answered(500) ELSE DeleteFailed
    /\ calls' = [q \in Slots |-> Overlapped(calls[q])]
    /\ UNCHANGED <<autoflush, done, ncalls, fn>>

\* await db.rollback(); logging.error(...); raise HTTPException(500)
delete_account_rollback ==
    /\ deleting.pc = "rollback"
    /\ deleting' = Answered(500)
    /\ calls' = [q \in Slots |-> Overlapped(calls[q])]
    /\ UNCHANGED <<storage, accounts, autoflush, done, ncalls, fn>>

(***************************************************************************)
(* Inputs                                                                  *)
(***************************************************************************)
CsvHeader == <<"date", "amount", "merchant", "category">>

LineA == <<<<"d">>, <<"5">>, <<"m">>, <<"x">>>>

LineA2 == <<<<"d">>, <<"5">>, <<"m">>, <<"y">>>>

LineB == <<<<"d">>, <<"7">>, <<"m">>, <<"x">>>>

LineBad == <<<<"d">>, <<"z">>, <<"m">>, <<"x">>>>

\* A file is its encoding and the table of its lines; an empty line is <<>>
CsvFiles ==
    {[encoding |-> "utf-8", table |-> <<CsvHeader, LineA, LineB>>],
     [encoding |-> "utf-8", table |-> <<CsvHeader, LineB, <<>>, LineA>>],
     [encoding |-> "windows-1251", table |-> <<CsvHeader, LineA, LineA2>>],
     [encoding |-> "utf-8", table |-> <<CsvHeader, LineBad, LineB>>],
     [encoding |-> "none", table |-> <<CsvHeader, LineA>>]}

\* The file of the second owner
CsvFile2 == [encoding |-> "utf-8", table |-> <<CsvHeader, LineA>>]

RawApiA == [k \in {"Date", "value", "payee", "id"} |->
              CASE k = "Date" -> PyStr(<<"d">>)
                [] k = "value" -> PyInt(5)
                [] k = "payee" -> PyStr(<<"m">>)
                [] k = "id" -> PyInt(7)]

RawApiB == [k \in {"date", "amount", "Amount", "merchant"} |->
              CASE k = "date" -> PyStr(<<"d">>)
                [] k = "amount" -> PyInt(0)
                [] k = "Amount" -> PyInt(7)
                [] k = "merchant" -> PyStr(<<"m">>)]

ApiResponses ==
    {[status |-> 200, body |-> PyList(<<PyDict(RawApiA), PyDict(RawApiB)>>)],
     [status |-> 200, body |-> PyDict([k \in {"result"} |-> PyNone])],
     [status |-> 200, body |-> PyInt(3)],
     [status |-> 500, body |-> PyList(<<>>)]}

EventPay == <<"p", "a", "y">>

EventRefund == <<"r", "e", "f">>

Hook(keys, val, event_type) ==
    [payload |-> [k \in keys |-> val[k]], event_type |-> event_type]

HookVals == [timestamp |-> PyInt(1000), transTime |-> PyInt(1500),
             confirmTime |-> PyInt(1000), amount |-> PyInt(5), transId |-> PyInt(9)]

Webhooks ==
    {Hook({"timestamp", "amount", "transId"}, HookVals, EventPay),
     Hook({"transTime", "confirmTime", "amount"}, HookVals, EventRefund),
     Hook({"amount"}, HookVals, EventPay)}

\* Deliveries whose timestamp is a text, or a number of milliseconds beyond
\* year 9999
TimestampText == <<"1", "0", "0", "0">>

OddWebhooks ==
    {Hook({"timestamp", "amount"},
          [HookVals EXCEPT !.timestamp = PyStr(TimestampText)], EventPay)}
      \cup {Hook({"confirmTime", "amount"},
                 [HookVals EXCEPT !.confirmTime = PyHugeInt(range)], EventPay) :
                range \in HugeRanges}

User1 == [user_id |-> 1, account_id |-> PyInt(10)]

User2 == [user_id |-> 2, account_id |-> PyNone]

Users == {User1.user_id, User2.user_id}

\* The calls made: every file and response by the first owner into an
\* account, a file by a second owner without account, and webhook deliveries
\* by each: without timestamp by the first, with one by the second, be it
\* one that can be converted or not
CsvRequests ==
    {[input |-> f, ctx |-> User1] : f \in CsvFiles}
      \cup {[input |-> CsvFile2, ctx |-> User2]}

ApiRequests == {[input |-> r, ctx |-> User1] : r \in ApiResponses}

WebhookRequests ==
    {[input |-> h, ctx |-> User1] :
        h \in {g \in Webhooks : DOMAIN g.payload = {"amount"}}}
      \cup {[input |-> h, ctx |-> User2] :
               h \in {g \in Webhooks : "timestamp" \in DOMAIN g.payload}}
      \cup {[input |-> h, ctx |-> User2] : h \in OddWebhooks}

(***************************************************************************)
(* The ingestion system: concurrent calls against one table                *)
(***************************************************************************)
NoFn == [op |-> "none"]

Init ==
    /\ storage = <<>>
    /\ accounts = {10}
    /\ deleting = IdleDelete
    /\ autoflush \in BOOLEAN
    /\ calls = [p \in Slots |-> IdleCall]
    /\ done = <<>>
    /\ ncalls = 0
    /\ fn = NoFn

Next ==
    \/ \E p \in Slots, q \in CsvRequests : ingest_from_csv(p, q.input, q.ctx, SrcCsv)
    \/ \E p \in Slots, q \in ApiRequests : ingest_from_api(p, q.input, q.ctx, SrcApi)
    \/ \E p \in Slots, q \in WebhookRequests : ingest_from_uzum_webhook(p, q.input, q.ctx)
    \/ \E p \in Slots : save_to_database_step(p)
    \/ \E p \in Slots : save_to_database_step_fails(p)
    \/ \E p \in Slots : save_to_database_commit(p)
    \/ \E p \in Slots : save_to_database_commit_fails(p)
    \/ \E p \in Slots : save_to_database_rollback(p)
    \/ \E p \in Slots : ingest_from_api_fetched(p)
    \/ \E a \in DOMAIN AccountOwner, u \in Users : delete_account(a, u)
    \/ delete_account_select
    \/ delete_account_cascade
    \/ delete_account_commit
    \/ delete_account_fails
    \/ delete_account_rollback

Spec == Init /\ [][Next]_vars

TypeOK ==
    /\ ncalls \in 0..MaxCalls
    /\ Len(done) <= ncalls

(***************************************************************************)
(* Properties of the ingestion system                                      *)
(***************************************************************************)
Fingerprints(e) == Hashes(e.transactions)

IsPrefix(s, t) == Len(s) <= Len(t) /\ \A i \in 1..Len(s) : s[i] = t[i]

\* The bytes of the file are text in neither of the encodings tried
ReaderFailsCsv(input) == input.encoding \notin {"utf-8", "windows-1251"}

TimestampFields == <<"timestamp", "transTime", "confirmTime">>

\* The value of the first timestamp field of the payload that is present
\* and neither zero nor empty, None when there is none
TimestampOf(payload) ==
    LET present == {k \in 1..Len(TimestampFields) :
                       /\ TimestampFields[k] \in DOMAIN payload
                       /\ Truthy(payload[TimestampFields[k]])}
    IN  IF present = {} THEN PyNone
        ELSE payload[TimestampFields[CHOOSE k \in present : \A l \in present : k <= l]]

\* No fingerprint of the batch was stored when the call began
Fresh(e) == Fingerprints(e) \cap Hashes(e.before) = {}

DistinctFingerprints(e) == Cardinality(Fingerprints(e)) = Len(e.transactions)

\* The account the call loads into, if any, was not deleted before the call
\* ended
AccountKept(e) == e.account_id = PyNone \/ e.account_id.v \in e.accounts_after

\* The failures of a source reader the call can be told to have from its
\* input: bytes no decoder accepts, a non-success status, a JSON body that is
\* neither a sequence nor a mapping; and, for a webhook delivery, a timestamp
\* that is not a number in the range of a date
ReaderFails(kind, input) ==
    CASE kind = "csv" -> ReaderFailsCsv(input)
      [] kind = "api" -> \/ input.status \notin 200..299
                         \/ input.body.t \notin {"list", "dict"}
      [] kind = "webhook" ->
           LET ts == TimestampOf(input.payload)
           IN  ts # PyNone /\ (ts.t # "int" \/ Huge(ts))

\* The record cannot be stored: its amount is not the text of a number
Unstorable(txn) == TypeViolation(NewTransaction(txn, 0, PyNone))

AllStorable(e) == \A k \in 1..Len(e.transactions) : ~Unstorable(e.transactions[k])

\* done[i] and done[j] are two CSV calls with the same content, owner,
\* account and source tag, made one right after the other, into an account
\* that exists (or into none), with no other request running, no account
\* deleted and no failure of storage meanwhile
Twice(i, j) ==
    /\ done[i].kind = "csv" /\ done[j].kind = "csv"
    /\ ~ReaderFailsCsv(done[i].input)
    /\ done[i].input = done[j].input
    /\ done[i].user_id = done[j].user_id
    /\ done[i].account_id = done[j].account_id
    /\ done[i].source = done[j].source
    /\ done[i].solo /\ done[j].solo
    /\ done[j].no = done[i].no + 1
    /\ done[i].accounts_before = done[j].accounts_after
    /\ AccountKept(done[i]) /\ AccountKept(done[j])
    /\ ~done[i].lost /\ ~done[j].lost

\* Both calls return, the first with everything saved, the second with
\* everything counted a duplicate and storage as it found it
FirstAllSavedSecondAllDuplicates(i, j) ==
    /\ done[i].outcome = "returned" /\ done[j].outcome = "returned"
    /\ done[i].saved = done[i].total /\ done[i].duplicates = 0
    /\ done[j].saved = 0 /\ done[j].duplicates = done[j].total
    /\ done[j].after = done[j].before

C2_UniqueFingerprint ==
    \A i, j \in 1..Len(storage) :
        storage[i].transaction_hash = storage[j].transaction_hash => i = j

\* Two overlapping calls carried the same fingerprint, one of them failed,
\* and the fingerprint is stored
C2_Witness ==
    \E i, j \in 1..Len(done) :
        /\ i # j
        /\ ~done[i].solo /\ ~done[j].solo
        /\ done[i].outcome = "raised" /\ done[j].outcome = "returned"
        /\ Fingerprints(done[i]) \cap Fingerprints(done[j]) \cap Hashes(storage) # {}

\* C3: a call in which exactly the record at position k cannot be stored, no
\* record is a duplicate and the storage connection holds, returns with
\* saved = batch size - 1, duplicates = 0 and exactly one errors entry,
\* tagged k, and the other records are persisted.
C3_PartialFailureIsolation ==
    \A i \in 1..Len(done) :
        LET e == done[i]
            bad == {k \in 1..Len(e.transactions) : Unstorable(e.transactions[k])}
        IN  (e.loaded /\ e.solo /\ Cardinality(bad) = 1
               /\ Fresh(e) /\ DistinctFingerprints(e)
               /\ ~e.lost /\ AccountKept(e))
            => /\ e.outcome = "returned"
               /\ e.saved = Len(e.transactions) - 1
               /\ e.duplicates = 0
               /\ Len(e.errors) = 1
               /\ e.errors[1].row \in bad
               /\ Len(e.after) = Len(e.before) + Len(e.transactions) - 1

\* await db.commit() of the finished call raised
CommitFailed(e) == e.loaded /\ e.error # ""

\* C4: a call whose final commit fails raises (it returns no result record),
\* and storage after it, no other request having run meanwhile, holds exactly
\* the rows it held before the call.
C4_CommitFailureAtomic ==
    \A i \in 1..Len(done) :
        CommitFailed(done[i])
        => /\ done[i].outcome = "raised"
           /\ done[i].solo => done[i].after = done[i].before

\* The rows storage holds after the finished call e beyond those it held
\* before it
AddedBy(e) == SubSeq(e.after, Len(e.before) + 1, Len(e.after))

\* What does hold of a failed commit: the call raises, and of the rows it
\* staged storage holds none, or, the connection having failed, all
CommitFailureAllOrNothing ==
    \A i \in 1..Len(done) :
        LET e == done[i]
        IN  CommitFailed(e)
            => /\ e.outcome = "raised"
               /\ e.solo
                  => \/ e.after = e.before
                     \/ /\ e.lost
                        /\ IsPrefix(e.before, e.after)
                        /\ Hashes(AddedBy(e)) = e.staged
                        /\ Len(AddedBy(e)) = Cardinality(e.staged)

\* A call whose commit raised on a failing connection had all it staged
\* applied
CommitAppliedUnacknowledged ==
    \E i \in 1..Len(done) :
        /\ CommitFailed(done[i]) /\ done[i].solo /\ done[i].lost
        /\ done[i].outcome = "raised"
        /\ done[i].saved = 2
        /\ Len(done[i].after) = Len(done[i].before) + 2

\* C5: a call that returns reports saved + duplicates + number of errors
\* entries = total, the number of records its reader produced; while the
\* loop runs the three tallies add up to the number of records visited.
C5_CompleteAccounting ==
    /\ \A i \in 1..Len(done) :
          done[i].outcome = "returned"
          => /\ done[i].saved + done[i].duplicates + Len(done[i].errors) = done[i].total
             /\ done[i].total = Len(done[i].transactions)
    /\ \A p \in Slots :
          Active(calls[p])
          => calls[p].saved + calls[p].duplicates + Len(calls[p].errors) = calls[p].idx - 1

C5_Witness ==
    \E i \in 1..Len(done) :
        /\ done[i].outcome = "returned"
        /\ done[i].saved > 0 /\ done[i].duplicates > 0

\* C10: every webhook call, whatever its payload and event type, hands the
\* loader exactly one canonical record, with source uzum_webhook; when it
\* returns it reports total = 1; and it adds at most one stored record.
C10_WebhookSingleRecord ==
    /\ \A p \in Slots :
          (Active(calls[p]) /\ calls[p].kind = "webhook")
          => /\ Len(calls[p].transactions) = 1
             /\ calls[p].transactions[1].source = PyStr(SrcUzum)
             /\ calls[p].total = 1
    /\ \A i \in 1..Len(done) :
          done[i].kind = "webhook"
          => /\ done[i].loaded
             /\ Len(done[i].transactions) = 1
             /\ done[i].transactions[1].source = PyStr(SrcUzum)
             /\ done[i].total = 1
             /\ Len(done[i].after) <= Len(done[i].at_commit) + 1
             /\ done[i].solo => Len(done[i].after) <= Len(done[i].before) + 1

\* What does hold of the webhook calls: a delivery whose timestamp cannot be
\* converted raises before the loader is called; every other one, a delivery
\* without any timestamp field included, hands the loader one record
WebhookOneRecordOrNone ==
    \A i \in 1..Len(done) :
        done[i].kind = "webhook"
        => IF ReaderFails("webhook", done[i].input)
           THEN LET ts == TimestampOf(done[i].input.payload)
                IN  /\ ~done[i].loaded /\ done[i].outcome = "raised"
                    /\ done[i].error = IF ts.t # "int" THEN "TypeError"
                                       ELSE HugeError(ts.huge)
           ELSE /\ done[i].loaded
                /\ Len(done[i].transactions) = 1
                /\ done[i].transactions[1].source = PyStr(SrcUzum)
                /\ done[i].total = 1

\* The log entry the step appends
Appended == done'[Len(done')]

\* The step ends a call at its reader: the call raised, has no report, never
\* reached the loader, and the step left storage as it was
AbortedAtReader ==
    /\ Len(done') = Len(done) + 1
    /\ ~Appended.loaded
    /\ Appended.outcome = "raised"
    /\ Appended.saved = 0 /\ Appended.duplicates = 0 /\ Appended.errors = <<>>
    /\ Appended.after = storage
    /\ Appended.solo => Appended.before = storage
    /\ storage' = storage

\* The loader is entered only by a call whose reader did not fail; a call
\* whose reader fails, be it as soon as the call is made or when the awaited
\* response arrives, is aborted there and leaves the other call as it was;
\* and no call whose reader fails is ever logged as loaded
ReaderFailureAborts ==
    /\ \A p \in Slots :
          (calls[p].pc \in {"idle", "fetch"} /\ calls'[p].pc \in {"loop", "commit"})
          => ~ReaderFails(calls'[p].kind, calls'[p].input)
    /\ \A p \in Slots :
          (calls[p].pc = "fetch" /\ calls'[p].pc # "fetch"
             /\ ReaderFails(calls[p].kind, calls[p].input))
          => /\ AbortedAtReader
             /\ Appended.input = calls[p].input
             /\ calls'[p] = IdleCall
             /\ calls'[Other(p)] = calls[Other(p)]
    /\ (ncalls' = ncalls + 1 /\ \A p \in Slots : Active(calls'[p]) = Active(calls[p]))
          => /\ AbortedAtReader
             /\ ReaderFails(Appended.kind, Appended.input)
             /\ calls' = calls
    /\ \A i \in 1..Len(done') :
          ReaderFails(done'[i].kind, done'[i].input)
          => ~done'[i].loaded /\ done'[i].outcome = "raised"

\* C11: when the source reader of an ingestion call fails (undecodable CSV
\* bytes, non-success HTTP status, unexpected JSON shape) the failure is
\* raised, the batch loader is never started for the call, no report is
\* produced and storage is unchanged.
C11_ReaderFailureAborts == [][ReaderFailureAborts]_vars

\* While a request was awaiting its response another call stored rows; the
\* response then came with a non-success status
C11_Witness ==
    \E i, j \in 1..Len(done) :
        /\ i < j
        /\ done[i].outcome = "returned" /\ done[i].saved > 0
        /\ done[j].kind = "api"
        /\ ReaderFails(done[j].kind, done[j].input)
        /\ ~done[j].loaded
        /\ done[j].error = "HTTPStatusError"
        /\ done[j].no < done[i].no
        /\ done[j].before = <<>>
        /\ done[j].after = done[i].after /\ storage # <<>>

\* A step of an ingestion call, not of the accounts endpoint
LoaderStep == deleting' = deleting

\* Every stored row is still stored, field for field, after a step of an
\* ingestion call
ExistingRecordsKept == LoaderStep => IsPrefix(storage, storage')

\* The loader, in a call that runs alone, whose account exists and that no
\* failure of storage has hit, ends the iteration for a record whose
\* fingerprint is stored: the record is counted
\* in duplicates and in nothing else, and storage is as it was
DuplicateOnlyCounted ==
    \A p \in Slots :
        LET c == calls[p]
        IN  (c.pc = "loop" /\ Active(calls'[p]) /\ calls'[p].idx = c.idx + 1
               /\ c.solo /\ ~ForeignKeyViolation(c, accounts)
               /\ ~calls'[p].lost
               /\ Existing(c.transactions[c.idx], storage))
            => /\ calls'[p].duplicates = c.duplicates + 1
               /\ calls'[p].saved = c.saved
               /\ calls'[p].errors = c.errors
               /\ storage' = storage

\* C12: no step of a save_to_database call, whether the call returns or
\* raises, changes or removes a stored row; a record whose fingerprint is
\* already stored is only counted in duplicates, without an errors entry.
C12_ExistingRecordsUntouched ==
    [][ExistingRecordsKept /\ DuplicateOnlyCounted]_vars

\* The part of C12 about the stored rows alone: the ingestion calls only
\* ever add rows at the end of storage
StorageAppendOnly == [][ExistingRecordsKept]_vars

\* The rows the finished call e inserted
InsertedBy(e) == SubSeq(e.after, Len(e.at_commit) + 1, Len(e.after))

\* The canonical record of the batch of e the row was built from
CanonicalOf(e, row) ==
    CHOOSE txn \in Range(e.transactions) : txn.transaction_hash = row.transaction_hash

\* A timestamp of storage, whose clock ticks in seconds, written as the
\* webhook path writes a transaction time
ClockText(t) == PyStr(IsoFormat(t * 1000))

\* C14: a row inserted by the loader has created_at equal to the date of
\* its canonical record when the date is known (here: for webhook records,
\* whose date is an ISO text) and equal to the ingestion time when the date
\* is empty; ingested_at is the time of the insertion, which lies between
\* the start of the call and now.
C14_StoredTimestamps ==
    \A i \in 1..Len(done) :
        \A row \in Range(InsertedBy(done[i])) :
            LET txn == CanonicalOf(done[i], row)
            IN  /\ done[i].no <= row.ingested_at /\ row.ingested_at <= ncalls
                /\ txn.date = PyNone => row.created_at = row.ingested_at
                /\ (done[i].kind = "webhook" /\ txn.date # PyNone)
                   => ClockText(row.created_at) = txn.date

\* Nothing but a race can make the call fail: every record can be stored,
\* no fingerprint occurs twice in the batch, the storage connection held,
\* the account was there
NoOtherFailure(e) ==
    /\ AllStorable(e)
    /\ DistinctFingerprints(e)
    /\ ~e.lost
    /\ AccountKept(e)

\* No call other than done[i] and done[j] staged a fingerprint these staged,
\* and no account was deleted while either of them ran
NoThirdCall(i, j) ==
    LET hs == done[i].staged \cup done[j].staged
    IN  /\ \A k \in 1..Len(done) \ {i, j} : done[k].staged \cap hs = {}
        /\ \A p \in Slots : Active(calls[p]) => calls[p].staged \cap hs = {}
        /\ done[i].accounts_before = done[i].accounts_after
        /\ done[j].accounts_before = done[j].accounts_after

\* done[i] ended first, done[j] had started by then, and both had passed
\* the existence check for a common fingerprint and staged it
Raced(i, j) ==
    /\ i < j
    /\ done[j].no <= done[i].ended
    /\ done[i].staged \cap done[j].staged # {}
    /\ NoOtherFailure(done[i]) /\ NoOtherFailure(done[j])
    /\ NoThirdCall(i, j)

RaceErrors == {"IntegrityError", "PendingRollbackError", "DeadlockDetected"}

\* w committed and returned, l raised and left nothing in storage
WonAndLost(w, l) ==
    /\ w.outcome = "returned"
    /\ Hashes(InsertedBy(w)) = w.staged
    /\ l.outcome = "raised"
    /\ l.error \in RaceErrors
    /\ l.after = l.at_commit
    /\ \A row \in Range(storage) :
          row.transaction_hash \in l.staged => row \in Range(InsertedBy(w))

\* C15: when two concurrent save_to_database calls both pass the existence
\* check for the same fingerprint and both stage it, exactly one of them
\* commits and returns; the other raises the storage failure, and none of
\* the records it staged is persisted, the ones without conflict included.
C15_RaceOutcome ==
    \A i, j \in 1..Len(done) :
        Raced(i, j)
        => \/ WonAndLost(done[i], done[j])
           \/ WonAndLost(done[j], done[i])

\* The call that lost the race had also staged a fingerprint the winner
\* did not have
C15_Witness ==
    \E i, j \in 1..Len(done) :
        /\ Raced(i, j)
        /\ \E w, l \in {done[i], done[j]} :
              /\ WonAndLost(w, l)
              /\ l.staged \ w.staged # {}
              /\ l.saved = 2

\* The call e ran alone on a batch in which a fingerprint that was not
\* stored occurs more than once, and nothing else can make it fail
InBatchDuplicates(e) ==
    /\ e.loaded /\ e.solo
    /\ Fresh(e) /\ ~DistinctFingerprints(e)
    /\ \A k \in 1..Len(e.transactions) : ~Unstorable(e.transactions[k])
    /\ ~e.lost
    /\ AccountKept(e)

\* The first record of every fingerprint is saved, the later ones are
\* counted in duplicates, the commit succeeds, one row per fingerprint is
\* stored
FirstSavedRestDuplicates(e) ==
    /\ e.outcome = "returned"
    /\ e.saved = Cardinality(Fingerprints(e))
    /\ e.duplicates = Len(e.transactions) - Cardinality(Fingerprints(e))
    /\ e.errors = <<>>
    /\ Len(InsertedBy(e)) = Cardinality(Fingerprints(e))
    /\ Hashes(InsertedBy(e)) = Fingerprints(e)

\* C16: a single save_to_database call whose batch holds two or more
\* records with the same fingerprint, not yet stored, saves the first of
\* them, counts each later one in duplicates, commits, and leaves exactly
\* one row with that fingerprint in storage.
C16_InBatchDuplicates ==
    \A i \in 1..Len(done) :
        InBatchDuplicates(done[i]) => FirstSavedRestDuplicates(done[i])

\* The same on a session that autoflushes, where the existence check sees
\* the rows staged earlier in the batch
InBatchDuplicatesAutoflushed ==
    \A i \in 1..Len(done) :
        (autoflush /\ InBatchDuplicates(done[i])) => FirstSavedRestDuplicates(done[i])

\* The positions of the batch of e whose fingerprint was stored, when the
\* call began, in a row of another owner or another account
StoredElsewhere(e) ==
    {k \in 1..Len(e.transactions) :
        \E row \in Range(e.before) :
            /\ row.transaction_hash = e.transactions[k].transaction_hash
            /\ row.owner_id # e.user_id \/ row.account_id # e.account_id}

\* C17: the existence check matches on transaction_hash alone: a call that
\* loads records whose fingerprints another owner (or another account)
\* already has stored returns, counts each of them in duplicates and
\* inserts no row with such a fingerprint.  Stated for calls that run alone
\* and that nothing else can fail.
C17_GlobalDeduplication ==
    \A i \in 1..Len(done) :
        LET e == done[i]
        IN  (e.loaded /\ e.solo /\ NoOtherFailure(e) /\ StoredElsewhere(e) # {})
            => /\ e.outcome = "returned"
               /\ e.duplicates >= Cardinality(StoredElsewhere(e))
               /\ e.saved <= Len(e.transactions) - Cardinality(StoredElsewhere(e))
               /\ \A k \in StoredElsewhere(e) :
                     e.transactions[k].transaction_hash \notin Hashes(InsertedBy(e))

\* A second owner loaded, into no account, a record the first owner had
\* loaded: it was counted a duplicate and every stored row is the first
\* owner's
C17_Witness ==
    \E i \in 1..Len(done) :
        /\ done[i].loaded /\ done[i].solo /\ NoOtherFailure(done[i])
        /\ Cardinality(StoredElsewhere(done[i])) = 1
        /\ done[i].outcome = "returned"
        /\ done[i].duplicates = 1 /\ done[i].saved = 0
        /\ storage # <<>>
        /\ \A row \in Range(storage) : row.owner_id # done[i].user_id

(***************************************************************************)
(* The pure functions, applied to arguments drawn from bounded sets        *)
(***************************************************************************)
MaxKeys == 2

MaxLines == 2

CandidateKeys ==
    Range(DateKeys) \cup Range(AmountKeys) \cup Range(MerchantKeys)
      \cup Range(CategoryKeys) \cup Range(DescriptionKeys) \cup Range(ExternalIdKeys)

RawValues == {PyNone, PyInt(0), PyInt(5), PyStr(<<>>), PyStr(<<"a">>)}

RECURSIVE KeySets(_)
KeySets(n) ==
    IF n = 0 THEN {{}}
    ELSE KeySets(n - 1) \cup {S \cup {k} : S \in KeySets(n - 1), k \in CandidateKeys}

\* Raw rows with at most MaxKeys of the candidate keys
RawRows == UNION {[K -> RawValues] : K \in KeySets(MaxKeys)}

\* Canonical transactions as handed to generate_hash
CanonicalTransactions ==
    [date : {PyNone, PyStr(<<"d">>)},
     amount : {PyNone, PyInt(5), PyStr(<<"5">>)},
     merchant : {PyNone, PyStr(<<"m">>)},
     category : {PyNone, PyStr(<<"x">>)},
     description : {PyNone, PyStr(<<"y">>)},
     external_id : {PyNone, PyStr(<<"7">>)},
     raw_payload : {PyDict(<<>>), PyDict([k \in {"amount"} |-> PyInt(5)])},
     source : {PyStr(SrcCsv), PyStr(SrcApi)}]

NoneText == <<"N", "o", "n", "e">>

\* Canonical transactions whose identity fields hold a missing value, the
\* text of the none marker, a number, its digits as text, and texts with
\* and without the pipe
IdentityTransactions ==
    [date : {PyNone, PyStr(NoneText), PyStr(<<"d">>), PyStr(<<"d", "|", "5">>)},
     amount : {PyInt(5), PyStr(<<"5">>), PyStr(<<"m">>), PyStr(<<"5", "|", "m">>)},
     merchant : {PyStr(<<"m">>)},
     category : {PyNone},
     description : {PyNone},
     external_id : {PyNone},
     raw_payload : {PyDict(<<>>)},
     source : {PyStr(SrcCsv), PyStr(SrcApi)}]

JsonRecord == PyDict([k \in {"amount"} |-> PyInt(5)])

JsonLists == {PyList(<<>>), PyList(<<JsonRecord>>), PyList(<<JsonRecord, JsonRecord>>)}

JsonResults ==
    {PyNone, PyList(<<>>), PyDict(<<>>)}
      \cup {PyDict([k \in {"transactions"} |-> l]) : l \in JsonLists \cup {PyNone}}

\* JSON bodies: lists, scalars, and mappings over the keys the normalizer
\* looks at and one it does not
JsonBodies ==
    JsonLists \cup {PyNone, PyInt(3), PyStr(<<"a">>)}
      \cup UNION {UNION {{PyDict([k \in K |->
                                   CASE k = "data" -> a
                                     [] k = "transactions" -> b
                                     [] k = "result" -> r
                                     [] k = "foo" -> PyStr(<<"a">>)]) :
                            a \in JsonLists \cup {PyNone}, b \in JsonLists \cup {PyNone}} :
                          r \in JsonResults} :
                   K \in SUBSET {"data", "transactions", "result", "foo"}}

Cells == {<<>>, <<"5">>}

RECURSIVE Tuples(_, _)
Tuples(S, n) ==
    IF n = 0 THEN {<<>>}
    ELSE Tuples(S, n - 1) \cup {Append(t, x) : t \in Tuples(S, n - 1), x \in S}

ShortHeader == <<"date", "amount">>

\* Text tables: a two-column header and up to MaxLines lines of up to three
\* cells, under each of the decodings
TextFiles ==
    {[encoding |-> e, table |-> <<ShortHeader>> \o lines] :
        e \in {"utf-8", "windows-1251", "none"},
        lines \in Tuples(Tuples(Cells, Len(ShortHeader) + 1), MaxLines)}

FnCall(op, arg) == [op |-> op, called |-> FALSE, arg |-> arg, out |-> PyNone]

FnInit ==
    /\ storage = <<>>
    /\ accounts = {10}
    /\ deleting = IdleDelete
    /\ autoflush = TRUE
    /\ calls = [p \in Slots |-> IdleCall]
    /\ done = <<>>
    /\ ncalls = 0
    /\ \/ \E r \in RawRows, src \in {SrcCsv, SrcApi} :
             fn = FnCall("to_standard_format", [raw_row |-> r, source |-> src])
       \/ \E a, b \in CanonicalTransactions \cup IdentityTransactions :
             fn = FnCall("generate_hash", [a |-> a, b |-> b])
       \/ \E d \in JsonBodies : fn = FnCall("normalize_api_response", [data |-> d])
       \/ \E f \in TextFiles : fn = FnCall("read_csv_file", [file_bytes |-> f])
       \/ \E r \in RawRows, src \in {SrcCsv, SrcApi} :
             fn = FnCall("to_standard_format_twice", [raw_row |-> r, source |-> src])
       \/ \E h \in Webhooks : fn = FnCall("uzum_webhook_to_standard", h)

Return(out) ==
    /\ ~fn.called
    /\ fn' = [fn EXCEPT !.called = TRUE, !.out = out]
    /\ UNCHANGED <<storage, accounts, deleting, autoflush, calls, done, ncalls>>

call_to_standard_format ==
    /\ fn.op = "to_standard_format"
    /\ Return(to_standard_format(fn.arg.raw_row, fn.arg.source))

call_generate_hash ==
    /\ fn.op = "generate_hash"
    /\ Return([a |-> generate_hash(fn.arg.a), b |-> generate_hash(fn.arg.b)])

call_normalize_api_response ==
    /\ fn.op = "normalize_api_response"
    /\ Return(normalize_api_response(fn.arg.data))

call_read_csv_file ==
    /\ fn.op = "read_csv_file"
    /\ Return(read_csv_file(fn.arg.file_bytes))

\* The canonical record handed back to to_standard_format as a raw map
call_to_standard_format_twice ==
    /\ fn.op = "to_standard_format_twice"
    /\ LET c == to_standard_format(fn.arg.raw_row, fn.arg.source)
       IN  Return([once |-> c, twice |-> to_standard_format(c, fn.arg.source)])

\* The two conversions of ingest_from_uzum_webhook
call_uzum_webhook_to_standard ==
    /\ fn.op = "uzum_webhook_to_standard"
    /\ LET standard == uzum_webhook_to_standard(fn.arg.payload, fn.arg.event_type)
       IN  Return(IF standard.ok
                  THEN [ok |-> TRUE, standard |-> standard.row,
                        txn |-> to_standard_format(standard.row, SrcUzum)]
                  ELSE standard)

FnNext ==
    \/ call_to_standard_format
    \/ call_generate_hash
    \/ call_normalize_api_response
    \/ call_read_csv_file
    \/ call_to_standard_format_twice
    \/ call_uzum_webhook_to_standard

SpecFn == FnInit /\ [][FnNext]_vars

(***************************************************************************)
(* Properties of the pure functions                                        *)
(***************************************************************************)
Applied(op) == fn.op = op /\ fn.called

SameIdentity(a, b) ==
    /\ a.date = b.date
    /\ a.amount = b.amount
    /\ a.merchant = b.merchant
    /\ a.source = b.source

\* C6: two canonical transactions with identical (date, amount, merchant,
\* source) get the same fingerprint, whatever their category, description,
\* external_id and raw_payload.
C6_FingerprintDeterminism ==
    (Applied("generate_hash") /\ SameIdentity(fn.arg.a, fn.arg.b))
    => fn.out.a = fn.out.b

C6_Witness ==
    /\ Applied("generate_hash")
    /\ SameIdentity(fn.arg.a, fn.arg.b)
    /\ fn.arg.a.category # fn.arg.b.category
    /\ fn.arg.a.description # fn.arg.b.description
    /\ fn.arg.a.external_id # fn.arg.b.external_id
    /\ fn.arg.a.raw_payload # fn.arg.b.raw_payload
    /\ fn.out.a = fn.out.b

Min(S) == CHOOSE m \in S : \A o \in S : m <= o

\* A field is empty when it is None or the empty text
Empty(v) == v = PyNone \/ v = PyStr(<<>>)

\* The value under the first key of the list that is present with a
\* non-empty value; None when there is no such key
FirstPresent(raw_row, keys) ==
    LET present == {i \in 1..Len(keys) :
                      keys[i] \in DOMAIN raw_row /\ ~Empty(raw_row[keys[i]])}
    IN  IF present = {} THEN PyNone ELSE raw_row[keys[Min(present)]]

\* The field holds the expected value, or is empty when none is expected
Resolved(field, expected) == IF Empty(expected) THEN Empty(field) ELSE field = expected

\* C7: every canonical field is the value of the first candidate key present
\* in the raw map with a non-absent value (external_id in its string form),
\* and is empty only when no candidate key is present.  An empty text counts
\* as absent.
C7_FallbackChainResolution ==
    Applied("to_standard_format")
    => LET r == fn.arg.raw_row
           id == FirstPresent(r, ExternalIdKeys)
       IN  /\ Resolved(fn.out.date, FirstPresent(r, DateKeys))
           /\ Resolved(fn.out.amount, FirstPresent(r, AmountKeys))
           /\ Resolved(fn.out.merchant, FirstPresent(r, MerchantKeys))
           /\ Resolved(fn.out.category, FirstPresent(r, CategoryKeys))
           /\ Resolved(fn.out.description, FirstPresent(r, DescriptionKeys))
           /\ Resolved(fn.out.external_id,
                       IF Empty(id) THEN PyNone ELSE PyStr(StrText(id)))

Present(d, k) == k \in DOMAIN d /\ d[k] # PyNone

\* The record sequence under the first present key among data, transactions
\* and result.transactions; the empty sequence when none is present
FirstSequence(d) ==
    IF Present(d, "data") THEN d["data"]
    ELSE IF Present(d, "transactions") THEN d["transactions"]
    ELSE IF Present(d, "result") /\ d["result"].t = "dict"
              /\ Present(d["result"].v, "transactions")
         THEN d["result"].v["transactions"]
         ELSE PyList(<<>>)

\* C8: a sequence body is returned as it is; a mapping body gives the
\* sequence under the first present key among data, transactions and
\* result.transactions, and the empty sequence when none is present; any
\* other body fails with the unexpected-shape error.
C8_ApiShapeNormalization ==
    Applied("normalize_api_response")
    => LET d == fn.arg.data
       IN  CASE d.t = "list" -> fn.out = [ok |-> TRUE, rows |-> d]
             [] d.t = "dict" -> fn.out = [ok |-> TRUE, rows |-> FirstSequence(d.v)]
             [] OTHER -> fn.out = [ok |-> FALSE, error |-> "ValueError"]

NonBlank(line) == \E i \in 1..Len(line) : line[i] # <<>>

RECURSIVE NonBlankRows(_, _)
NonBlankRows(fieldnames, lines) ==
    IF lines = <<>> THEN <<>>
    ELSE IF NonBlank(Head(lines))
         THEN <<DictRow(fieldnames, Head(lines))>> \o NonBlankRows(fieldnames, Tail(lines))
         ELSE NonBlankRows(fieldnames, Tail(lines))

\* C9: the reader yields one raw record per line that has a non-empty cell,
\* in line order, and drops every line whose cells are all empty or absent.
C9_BlankRowSkipping ==
    (Applied("read_csv_file") /\ fn.out.ok)
    => fn.out.rows = NonBlankRows(Head(fn.arg.file_bytes.table),
                                  Tail(fn.arg.file_bytes.table))

CanonicalFields ==
    {"date", "amount", "merchant", "category", "description", "external_id",
     "raw_payload", "source", "transaction_hash"}

\* C13: handing a canonical record back to to_standard_format with the same
\* source tag gives the same record on every canonical field (here for raw
\* maps whose values are all non-empty); and the record a webhook call hands
\* to the loader carries the transId of the payload as external_id and the
\* payload as raw_payload.
C13_IdempotentRecanonicalization ==
    /\ (Applied("to_standard_format_twice")
          /\ \A k \in DOMAIN fn.arg.raw_row : Truthy(fn.arg.raw_row[k]))
       => \A f \in CanonicalFields : fn.out.twice[f] = fn.out.once[f]
    /\ Applied("uzum_webhook_to_standard")
       => /\ fn.out.txn.raw_payload = PyDict(fn.arg.payload)
          /\ fn.out.txn.external_id =
                IF "transId" \in DOMAIN fn.arg.payload
                THEN PyStr(StrText(fn.arg.payload["transId"]))
                ELSE PyNone

\* Two field values are the same value, a number and the text of its
\* digits being taken for the same
SameValue(x, y) ==
    \/ x = y
    \/ /\ x.t \in {"int", "str"} /\ y.t \in {"int", "str"}
       /\ StrText(x) = StrText(y)

\* C18: two canonical transactions get the same transaction_hash only if
\* their (date, amount, merchant, source) are equal: a missing field and the
\* text of the none marker, or values that differ in where a pipe falls,
\* never give one fingerprint.  (A number and its digits as text are let
\* pass for equal here.)
C18_FingerprintSeparates ==
    (Applied("generate_hash") /\ fn.out.a = fn.out.b)
    => /\ SameValue(fn.arg.a.date, fn.arg.b.date)
       /\ SameValue(fn.arg.a.amount, fn.arg.b.amount)
       /\ SameValue(fn.arg.a.merchant, fn.arg.b.merchant)
       /\ SameValue(fn.arg.a.source, fn.arg.b.source)

=============================================================================
